---- MODULE Spec2Model ----
(***************************************************************************)
(* A model of scripts/runners/dcgan.py: the AugWrapper module (random      *)
(* horizontal flip, random crop-and-resize, the augmentation gate) and the *)
(* Runner (dataset repetition, the generator's forward hook, the periodic  *)
(* plot callback, the train command).                                      *)
(*                                                                         *)
(* Numbers.  Python floats are modelled as exact rationals <<n, d>> with   *)
(* d > 0; a draw of np.random.random() is k/RandDen for k in 0..RandDen-1, *)
(* so it lies in [0,1).  int(x) is truncation toward zero.                 *)
(*                                                                         *)
(* Tensors.  A batch of images is a record                                 *)
(*    [shape |-> <<B, H, W>>, den |-> d, px |-> p]                         *)
(* where p[b][i][j] / d is the value of pixel (i, j) of image b.  The      *)
(* channel axis is left out: every operation of the file acts on all       *)
(* channels alike.  Axis 3 of the 4-d tensor (the flip axis, and           *)
(* shape[-1]) is W.                                                        *)
(***************************************************************************)
EXTENDS Integers, Sequences, FiniteSets, TLC

VARIABLES
    args,            \* self.args: the configuration record
    training,        \* self.training
    pc,              \* where the run is: constructed, started, running
    model,           \* what create_model returned (None before)
    last_generated,  \* self.last_generated: Unset, None or a tensor object
    g_out,           \* the tensor object G.forward made in the latest generator call
    g_returned,      \* what the latest generator call returned to its caller
    g_calls,         \* generator calls since create_model
    events,          \* self.events.iteration_completed
    logger,          \* the logging sink: pending images and rendered grids
    iteration,       \* completed iterations
    d_call,          \* the latest AugWrapper.forward call of the run: the shape it
                     \* got, its gate draw, whether it augmented, the shape it
                     \* handed to the discriminator
    error,           \* the exception that ended the run (None while it runs)
    root_len,        \* number of images ImageFolder finds under args.root
    dataset,         \* what create_dataset returned (None before)
    item,            \* the latest dataset[i] lookup
    fn_in,           \* inputs of the latest static-method call
    fn_out           \* its result

vars == <<args, training, pc, model, last_generated, g_out, g_returned, g_calls,
          events, logger, iteration, d_call, error, root_len, dataset, item,
          fn_in, fn_out>>

runnerVars == <<args, training, pc, model, last_generated, g_out, g_returned,
                g_calls, events, logger, iteration, d_call, error>>

dataVars == <<root_len, dataset, item>>

fnVars == <<fn_in, fn_out>>

\* Python's None, and an attribute that was never assigned
None == [none |-> TRUE]

Unset == [unset |-> TRUE]

\* no exception was raised
NoError == "none"

-----------------------------------------------------------------------------
(* Bounds of the model. *)

\* draws of np.random.random() are k/RandDen
RandDen == 4

\* scales are n/ScaleDen
ScaleDen == 20

\* probabilities (aug_prob, the flip threshold) are n/ProbDen
ProbDen == 2

\* largest image side the static methods are applied to
MaxSide == 4

\* largest crop_size of a run
MaxCrop == 2

\* iterations a run completes
MaxIter == 3

\* largest plot_every
MaxPlotEvery == 2

\* largest underlying dataset and largest ds_repeat
MaxLen == 4

MaxRepeat == 4

\* largest generated batch a run's discriminator calls are checked with
MaxDBatch == 1

-----------------------------------------------------------------------------
(* Python arithmetic. *)

\* int(n/d) for d > 0: truncation toward zero
PyInt(n, d) == IF n >= 0 THEN n \div d ELSE -((-n) \div d)

\* a < b for rationals a = <<an, ad>>, b = <<bn, bd>> with positive denominators
RatLess(a, b) == a[1] * b[2] < b[1] * a[2]

Min(a, b) == IF a < b THEN a ELSE b

Max(a, b) == IF a > b THEN a ELSE b

\* Python's sequence slice s[lo:hi] for 0 <= lo, hi (0-based, hi exclusive,
\* both clamped to the length)
PySlice(s, lo, hi) ==
    LET l == Min(lo, Len(s))
        h == Min(hi, Len(s))
    IN  IF h <= l THEN << >> ELSE SubSeq(s, l + 1, h)

Reverse(s) == [k \in 1..Len(s) |-> s[Len(s) + 1 - k]]

-----------------------------------------------------------------------------
(* AugWrapper *)

\* CropWindow with the offsets drawn over the whole side instead of size - new_size
CropWindow_OffsetsOverSide(size, scale, rh, rw) ==
    LET new_size == PyInt(size * scale[1], scale[2])
        h0 == PyInt(rh * size, RandDen)
        w0 == PyInt(rw * size, RandDen)
    IN  [new_size |-> new_size, dsize |-> size - new_size,
         h0 |-> h0, h1 |-> h0 + new_size,
         w0 |-> w0, w1 |-> w0 + new_size]

\* lines 32-42: the crop window of random_crop_and_resize for an image of side
\* size, scale = <<sn, sd>>, and the two draws rh/RandDen, rw/RandDen
CropWindow(size, scale, rh, rw) ==
    LET new_size == PyInt(size * scale[1], scale[2])
        dsize == size - new_size
        h0 == PyInt(rh * dsize, RandDen)
        w0 == PyInt(rw * dsize, RandDen)
    IN  [new_size |-> new_size, dsize |-> dsize,
         h0 |-> h0, h1 |-> h0 + new_size,
         w0 |-> w0, w1 |-> w0 + new_size]

\* line 44: images[..., h0:h1, w0:w1] (then .clone(): a new tensor of equal value)
CropSlice(images, win) ==
    LET rows(img) == PySlice(img, win.h0, win.h1)
        px == [b \in 1..images.shape[1] |->
                 [i \in 1..Len(rows(images.px[b])) |->
                    PySlice(rows(images.px[b])[i], win.w0, win.w1)]]
        H == Len(PySlice([k \in 1..images.shape[2] |-> k], win.h0, win.h1))
        W == Len(PySlice([k \in 1..images.shape[3] |-> k], win.w0, win.w1))
    IN  [shape |-> <<images.shape[1], H, W>>, den |-> images.den, px |-> px]

\* lines 47-52: F.interpolate(t, size=(size, size), mode="bilinear",
\* align_corners=True).  Output pixel i (0-based) samples the input at
\* i*(in-1)/(out-1) (at 0 when out = 1) and blends the two neighbours on each
\* axis; an input or output with an empty spatial axis raises.
Interpolate(t, size) ==
    LET H == t.shape[2]
        W == t.shape[3]
        q == Max(size - 1, 1)
        y0(i) == ((i - 1) * (H - 1)) \div q
        ly(i) == ((i - 1) * (H - 1)) % q
        x0(j) == ((j - 1) * (W - 1)) \div q
        lx(j) == ((j - 1) * (W - 1)) % q
        y1(i) == Min(y0(i) + 1, H - 1)
        x1(j) == Min(x0(j) + 1, W - 1)
        at(b, i, j) ==
              (q - ly(i)) * (q - lx(j)) * t.px[b][y0(i) + 1][x0(j) + 1]
            + (q - ly(i)) * lx(j) * t.px[b][y0(i) + 1][x1(j) + 1]
            + ly(i) * (q - lx(j)) * t.px[b][y1(i) + 1][x0(j) + 1]
            + ly(i) * lx(j) * t.px[b][y1(i) + 1][x1(j) + 1]
    IN  IF H <= 0 \/ W <= 0 \/ size <= 0
        THEN [ok |-> FALSE, err |-> "RuntimeError"]
        ELSE [ok |-> TRUE,
              value |-> [shape |-> <<t.shape[1], size, size>>,
                         den |-> t.den * q * q,
                         px |-> [b \in 1..t.shape[1] |->
                                   [i \in 1..size |->
                                      [j \in 1..size |-> at(b, i, j)]]]]]

\* lines 30-52
random_crop_and_resize(images, scale, rh, rw) ==
    LET size == images.shape[3]
        win == CropWindow(size, scale, rh, rw)
        cropped == CropSlice(images, win)
    IN  Interpolate(cropped, size)

\* line 58: torch.flip(tensor, dims=(3,))
Flip(tensor) ==
    [tensor EXCEPT !.px = [b \in 1..tensor.shape[1] |->
                             [i \in 1..tensor.shape[2] |->
                                Reverse(tensor.px[b][i])]]]

\* random_hflip with the comparison turned around
random_hflip_Inverted(tensor, prob, r) ==
    IF RatLess(prob, <<r, RandDen>>) THEN tensor ELSE Flip(tensor)

\* lines 54-58, with the draw r/RandDen
random_hflip(tensor, prob, r) ==
    IF RatLess(<<r, RandDen>>, prob) THEN tensor ELSE Flip(tensor)

\* line 66: self.D(images); the discriminator is supplied from outside this
\* file and is kept as an uninterpreted score of its input
DScore(images) == [score_of |-> images]

\* forward with a gate that also fires when the draw equals self.prob
forward_GateInclusive(prob, images, gate, scale, rflip, rh, rw) ==
    IF ~RatLess(prob, <<gate, RandDen>>)
    THEN LET flipped == random_hflip(images, <<1, 2>>, rflip)
             res == random_crop_and_resize(flipped, scale, rh, rw)
         IN  IF res.ok
             THEN [ok |-> TRUE, augmented |-> TRUE, d_input |-> res.value,
                   value |-> DScore(res.value)]
             ELSE [ok |-> FALSE, augmented |-> TRUE, err |-> res.err]
    ELSE [ok |-> TRUE, augmented |-> FALSE, d_input |-> images,
          value |-> DScore(images)]

\* lines 60-66: forward(images) of a wrapper with self.prob = prob, given the
\* gate draw gate/RandDen, the scale np.random.uniform drew, the flip draw
\* rflip/RandDen and the offset draws rh/RandDen, rw/RandDen
forward(prob, images, gate, scale, rflip, rh, rw) ==
    IF RatLess(<<gate, RandDen>>, prob)
    THEN LET flipped == random_hflip(images, <<1, 2>>, rflip)
             res == random_crop_and_resize(flipped, scale, rh, rw)
         IN  IF res.ok
             THEN [ok |-> TRUE, augmented |-> TRUE, d_input |-> res.value,
                   value |-> DScore(res.value)]
             ELSE [ok |-> FALSE, augmented |-> TRUE, err |-> res.err]
    ELSE [ok |-> TRUE, augmented |-> FALSE, d_input |-> images,
          value |-> DScore(images)]

\* line 62: the values np.random.uniform(0.75, 0.95) can return, as n/ScaleDen
ForwardScales ==
    {<<n, ScaleDen>> : n \in {k \in 0..ScaleDen :
                                 /\ 75 * ScaleDen <= 100 * k
                                 /\ 100 * k < 95 * ScaleDen}}

\* the values np.random.random() can return, as numerators over RandDen
Draws == 0..(RandDen - 1)

-----------------------------------------------------------------------------
(* Inputs of the static methods and of forward. *)

\* a batch of B images of side S whose pixels are pairwise different
Ramp(B, S) ==
    [shape |-> <<B, S, S>>, den |-> 1,
     px |-> [b \in 1..B |-> [i \in 1..S |-> [j \in 1..S |->
                (b - 1) * S * S + (i - 1) * S + j]]]]

TestImages == {Ramp(B, S) : B \in 1..2, S \in 1..MaxSide}

\* scales in (0, 1]
UnitScales == {<<n, ScaleDen>> : n \in 1..ScaleDen}

\* probabilities below, in and above [0, 1]
Probs == {<<n, ProbDen>> : n \in (-1)..(ProbDen + 1)}

CropInputs ==
    [op : {"random_crop_and_resize"}, images : TestImages, scale : UnitScales,
     rh : Draws, rw : Draws]

FlipInputs ==
    [op : {"random_hflip"}, tensor : TestImages, prob : Probs, r : Draws]

ForwardInputs ==
    [op : {"forward"}, prob : Probs, images : {Ramp(1, S) : S \in 1..MaxSide},
     gate : Draws, scale : ForwardScales, rflip : Draws, rh : Draws, rw : Draws]

-----------------------------------------------------------------------------
(* The run's state outside the part a specification is about. *)

IdleRunner ==
    /\ args = None
    /\ training = FALSE
    /\ pc = "idle"
    /\ model = None
    /\ last_generated = Unset
    /\ g_out = None
    /\ g_returned = None
    /\ g_calls = 0
    /\ events = << >>
    /\ logger = None
    /\ iteration = 0
    /\ d_call = None
    /\ error = NoError

IdleData ==
    /\ root_len = 0
    /\ dataset = None
    /\ item = None

IdleFn ==
    /\ fn_in = None
    /\ fn_out = None

-----------------------------------------------------------------------------
(* SpecAug: the static methods and forward applied to drawn inputs. *)

InitAug ==
    /\ IdleRunner
    /\ IdleData
    /\ fn_in \in CropInputs \cup FlipInputs \cup ForwardInputs
    /\ fn_out = None

ApplyCrop ==
    /\ fn_out = None
    /\ fn_in.op = "random_crop_and_resize"
    /\ fn_out' = [win |-> CropWindow(fn_in.images.shape[3], fn_in.scale,
                                     fn_in.rh, fn_in.rw),
                  res |-> random_crop_and_resize(fn_in.images, fn_in.scale,
                                                 fn_in.rh, fn_in.rw)]
    /\ UNCHANGED <<fn_in, runnerVars, dataVars>>

ApplyFlip ==
    /\ fn_out = None
    /\ fn_in.op = "random_hflip"
    /\ fn_out' = [res |-> random_hflip(fn_in.tensor, fn_in.prob, fn_in.r)]
    /\ UNCHANGED <<fn_in, runnerVars, dataVars>>

ApplyForward ==
    /\ fn_out = None
    /\ fn_in.op = "forward"
    /\ fn_out' = [res |-> forward(fn_in.prob, fn_in.images, fn_in.gate,
                                  fn_in.scale, fn_in.rflip, fn_in.rh, fn_in.rw)]
    /\ UNCHANGED <<fn_in, runnerVars, dataVars>>

NextAug == ApplyCrop \/ ApplyFlip \/ ApplyForward

SpecAug == InitAug /\ [][NextAug]_vars

-----------------------------------------------------------------------------
(* Runner: the model pair, the forward hook and the plot callback. *)

\* line 156: the number of images a plot shows
GRID == 16

\* Python's a % b for b # 0: the result has the sign of b
PyMod(a, b) == IF b > 0 THEN a % b ELSE -((-a) % (-b))

\* tensor[:n] along the batch axis
BatchHead(t, n) ==
    LET kept == PySlice(t.px, 0, n)
    IN  [shape |-> <<Len(kept), t.shape[2], t.shape[3]>>, den |-> t.den,
         px |-> kept]

\* tensor + n/d, elementwise
AddScalar(t, n, d) ==
    [shape |-> t.shape, den |-> t.den * d,
     px |-> [b \in 1..t.shape[1] |-> [i \in 1..t.shape[2] |->
               [j \in 1..t.shape[3] |-> t.px[b][i][j] * d + n * t.den]]]]

\* tensor.clamp(lo, hi) for integers lo <= hi, elementwise
Clamp(t, lo, hi) ==
    [shape |-> t.shape, den |-> t.den,
     px |-> [b \in 1..t.shape[1] |-> [i \in 1..t.shape[2] |->
               [j \in 1..t.shape[3] |->
                  Max(lo * t.den, Min(hi * t.den, t.px[b][i][j]))]]]]

\* PlotImages taking the last 16 images of the batch instead of the first 16
PlotImages_Tail(generated) ==
    LET n == generated.shape[1]
        kept == PySlice(generated.px, Max(n - GRID, 0), n)
        tail == [shape |-> <<Len(kept), generated.shape[2], generated.shape[3]>>,
                 den |-> generated.den, px |-> kept]
    IN  Clamp(AddScalar(tail, 1, 2), 0, 1)

\* line 156: (self.last_generated[:16] + 0.5).clamp(0, 1)
PlotImages(generated) == Clamp(AddScalar(BatchHead(generated, GRID), 1, 2), 0, 1)

\* the logging sink: add_images(name, images) holds a named batch until
\* render(iteration) emits everything held under that iteration number.  The
\* sink keeps, per emission, the iteration and the names and sizes of the
\* batches, and in full the batches of the latest emission (shown).
EmptyLogger == [pending |-> << >>, rendered |-> << >>, shown |-> << >>]

add_images(lgr, name, images) ==
    [lgr EXCEPT !.pending = Append(@, [name |-> name, images |-> images])]

render(lgr, it) ==
    [pending |-> << >>,
     rendered |-> Append(lgr.rendered,
                    [iteration |-> it,
                     items |-> [k \in 1..Len(lgr.pending) |->
                                  [name |-> lgr.pending[k].name,
                                   count |-> lgr.pending[k].images.shape[1]]]]),
     shown |-> lgr.pending]

\* a generator output: B images of side S with values in [-3/2, 3/2], each
\* image different from its neighbours in the batch
GenTensor(B, S) ==
    [shape |-> <<B, S, S>>, den |-> 2,
     px |-> [b \in 1..B |-> [i \in 1..S |-> [j \in 1..S |->
                ((b + i + j) % 7) - 3]]]]

\* the tensor objects the generator of image_size S can return (line 105: the
\* generator is supplied from outside this file); the run's variables hold
\* references to them
GenOutputs(S) == [B : {1, GRID + 1}, S : {S}]

\* the value of a tensor object
TensorOf(ref) == GenTensor(ref.B, ref.S)

\* lines 152-158: plot(iteration), given self.last_generated, args.plot_every
\* and the sink; evaluating None[:16] raises TypeError before add_images is
\* called, and a zero plot_every raises ZeroDivisionError
plot(generated, plot_every, lgr, it) ==
    IF plot_every = 0
    THEN [error |-> "ZeroDivisionError", logger |-> lgr]
    ELSE IF PyMod(it, plot_every) = 0
         THEN IF generated = None
              THEN [error |-> "TypeError", logger |-> lgr]
              ELSE [error |-> NoError,
                    logger |-> render(add_images(lgr, "generated",
                                        PlotImages(TensorOf(generated))), it)]
         ELSE [error |-> NoError, logger |-> lgr]

\* a hook that returns the batch it shows, which replaces the generator's output
hook_ReturnsHead(o) ==
    [last_generated |-> o, result |-> [o EXCEPT !.B = Min(o.B, GRID)]]

\* lines 117-118: hook(m, i, o): what it stores and what it returns
hook(o) == [last_generated |-> o, result |-> None]

\* nn.Module.__call__ with one forward hook: a hook result other than None
\* replaces the output
CallResult(o, hook_result) == IF hook_result # None THEN hook_result ELSE o

\* the batches prepare_batch hands over (lines 136-138): images of side S
RealBatches(S) == {Ramp(1, S)}

\* line 70-82: the configurations __init__ accepts: it checks nothing
Configs ==
    [ds_repeat : {100}, base_size : {144}, crop_size : 1..MaxCrop,
     aug_prob : Probs, plot_every : {Unset}]

PlotEverys == (-1)..MaxPlotEvery

Init ==
    /\ args \in Configs
    /\ training = FALSE
    /\ pc = "constructed"
    /\ model = None
    /\ last_generated = Unset
    /\ g_out = None
    /\ g_returned = None
    /\ g_calls = 0
    /\ events = << >>
    /\ logger = EmptyLogger
    /\ iteration = 0
    /\ d_call = None
    /\ error = NoError
    /\ IdleData
    /\ IdleFn

\* lines 162-165: the train command; the framework's train() switches to
\* training mode and goes on to build the model and call initialize()
train(plot_every) ==
    /\ pc = "constructed"
    /\ args' = [args EXCEPT !.plot_every = [value |-> plot_every]]
    /\ training' = TRUE
    /\ pc' = "started"
    /\ UNCHANGED <<model, last_generated, g_out, g_returned, g_calls, events,
                   logger, iteration, d_call, error, dataVars, fnVars>>

\* line 169: torchzq.start(Runner) runs a command other than train, which
\* leaves self.training false and sets no plot_every
start_other ==
    /\ pc = "constructed"
    /\ training' = FALSE
    /\ pc' = "started"
    /\ UNCHANGED <<args, model, last_generated, g_out, g_returned, g_calls,
                   events, logger, iteration, d_call, error, dataVars, fnVars>>

\* lines 104-134
create_model ==
    /\ pc = "started"
    /\ model = None
    /\ model' = [G |-> [image_size |-> args.crop_size, hooks |-> <<"hook">>],
                 D |-> [image_size |-> args.crop_size, prob |-> args.aug_prob]]
    /\ last_generated' = None
    /\ g_calls' = 0
    /\ UNCHANGED <<args, training, pc, g_out, g_returned, events, logger,
                   iteration, d_call, error, dataVars, fnVars>>

\* lines 146-160
initialize ==
    /\ pc = "started"
    /\ model # None
    /\ events' = IF training THEN Append(events, "plot") ELSE events
    /\ pc' = "running"
    /\ UNCHANGED <<args, training, model, last_generated, g_out, g_returned,
                   g_calls, logger, iteration, d_call, error, dataVars, fnVars>>

\* a call G(z) by the training loop: forward, then the hook of lines 117-120
G_call ==
    /\ pc = "running"
    /\ error = NoError
    /\ g_calls <= iteration
    /\ \E o \in GenOutputs(model.G.image_size) :
          /\ g_out' = o
          /\ last_generated' = hook(o).last_generated
          /\ g_returned' = CallResult(o, hook(o).result)
    /\ g_calls' = g_calls + 1
    /\ UNCHANGED <<args, training, pc, model, events, logger, iteration,
                   d_call, error, dataVars, fnVars>>

\* the draws and scales a run's discriminator calls are checked with: the
\* lowest and the highest gate draw and scale, and two triples of flip, top
\* and left draws (SpecAug applies forward to every combination of draws)
RunDraws == {0, RandDen - 1}

RunAugDraws == {<<0, 0, RandDen - 1>>, <<RandDen - 1, RandDen - 1, 0>>}

RunScales ==
    {s \in ForwardScales : \A t \in ForwardScales : s[1] <= t[1]}
    \cup {s \in ForwardScales : \A t \in ForwardScales : s[1] >= t[1]}

\* a call D(images) by the training loop, on a real batch or on the latest
\* generated one (of at most MaxDBatch images): lines 60-66
D_call ==
    /\ pc = "running"
    /\ error = NoError
    /\ \E images \in RealBatches(model.D.image_size)
                       \cup (IF g_calls > 0 /\ g_returned.B <= MaxDBatch
                             THEN {TensorOf(g_returned)} ELSE {}),
          gate \in RunDraws, scale \in RunScales, r \in RunAugDraws :
          LET res == forward(model.D.prob, images, gate, scale, r[1], r[2], r[3])
          IN  /\ d_call' = [in_shape |-> images.shape, gate |-> gate,
                             augmented |-> res.augmented,
                             out_shape |-> IF res.ok THEN res.d_input.shape
                                           ELSE << >>]
              /\ error' = IF res.ok THEN NoError ELSE res.err
    /\ UNCHANGED <<args, training, pc, model, last_generated, g_out,
                   g_returned, g_calls, events, logger, iteration, dataVars,
                   fnVars>>

\* the callbacks of self.events.iteration_completed run in order on it; the
\* first exception ends the run
RECURSIVE RunCallbacks(_, _, _)
RunCallbacks(cbs, lgr, it) ==
    IF cbs = << >>
    THEN [error |-> NoError, logger |-> lgr]
    ELSE LET r == plot(last_generated, args.plot_every.value, lgr, it)
         IN  IF r.error # NoError
             THEN r
             ELSE RunCallbacks(Tail(cbs), r.logger, it)

\* the training loop completes an iteration and fires iteration_completed
iteration_completed ==
    /\ pc = "running"
    /\ error = NoError
    /\ iteration < MaxIter
    /\ iteration' = iteration + 1
    /\ LET r == RunCallbacks(events, logger, iteration + 1)
       IN  /\ error' = r.error
           /\ logger' = r.logger
    /\ UNCHANGED <<args, training, pc, model, last_generated, g_out,
                   g_returned, g_calls, events, d_call, dataVars, fnVars>>

Next ==
    \/ \E pe \in PlotEverys : train(pe)
    \/ start_other
    \/ create_model
    \/ initialize
    \/ G_call
    \/ D_call
    \/ iteration_completed

Spec == Init /\ [][Next]_vars

-----------------------------------------------------------------------------
(* SpecData: create_dataset and lookups in the dataset it returns. *)

\* lines 89-101: the ImageFolder over args.root with the transform pipeline;
\* one object (obj names it), of as many samples as there are images
ImageFolder(n_images, base_size, crop_size) ==
    [obj |-> 1, len |-> n_images,
     transform |-> <<[op |-> "Resize", size |-> base_size],
                     [op |-> "RandomCrop", size |-> crop_size],
                     [op |-> "ToTensor"],
                     [op |-> "Normalize", mean |-> <<1, 2>>, std |-> 1]>>]

\* a repetition that copies the dataset: n objects instead of n references
Repeat_Copies(ds, n) == [k \in 1..Max(n, 0) |-> [ds EXCEPT !.obj = k]]

\* line 102: [dataset] * n, a list of n references to the one object
Repeat(ds, n) == [k \in 1..Max(n, 0) |-> ds]

RECURSIVE CumSum(_)
CumSum(lens) ==
    IF lens = << >>
    THEN << >>
    ELSE LET front == CumSum(SubSeq(lens, 1, Len(lens) - 1))
         IN  Append(front, (IF front = << >> THEN 0 ELSE front[Len(front)])
                           + lens[Len(lens)])

\* line 102: ConcatDataset(datasets): it asserts that the list is not empty
\* and keeps the list and the running sums of the lengths
ConcatDataset(datasets) ==
    IF Len(datasets) = 0
    THEN [ok |-> FALSE, err |-> "AssertionError"]
    ELSE [ok |-> TRUE,
          value |-> [datasets |-> datasets,
                     cumulative_sizes |->
                        CumSum([k \in 1..Len(datasets) |-> datasets[k].len])]]

\* len(ConcatDataset)
ConcatLen(cd) == cd.cumulative_sizes[Len(cd.cumulative_sizes)]

\* bisect.bisect_right(a, x) on a sorted list: how many entries are <= x
BisectRight(a, x) == Cardinality({k \in 1..Len(a) : a[k] <= x})

\* ConcatDataset[idx] for 0 <= idx < len: which list entry (0-based), which
\* object it refers to and which of its samples
GetItem(cd, idx) ==
    LET dataset_idx == BisectRight(cd.cumulative_sizes, idx)
        sample_idx == IF dataset_idx = 0 THEN idx
                      ELSE idx - cd.cumulative_sizes[dataset_idx]
    IN  [dataset_idx |-> dataset_idx,
         obj |-> cd.datasets[dataset_idx + 1].obj,
         sample_idx |-> sample_idx]

InitData ==
    /\ args \in [ds_repeat : 0..MaxRepeat, base_size : {144}, crop_size : {128},
                 aug_prob : {<<1, 2>>}, plot_every : {Unset}]
    /\ training = FALSE
    /\ pc = "constructed"
    /\ model = None
    /\ last_generated = Unset
    /\ g_out = None
    /\ g_returned = None
    /\ g_calls = 0
    /\ events = << >>
    /\ logger = EmptyLogger
    /\ iteration = 0
    /\ d_call = None
    /\ error = NoError
    /\ root_len \in 1..MaxLen
    /\ dataset = None
    /\ item = None
    /\ IdleFn

\* lines 88-102
create_dataset ==
    /\ error = NoError
    /\ dataset = None
    /\ LET ds == ImageFolder(root_len, args.base_size, args.crop_size)
           cd == ConcatDataset(Repeat(ds, args.ds_repeat))
       IN  /\ dataset' = IF cd.ok THEN cd.value ELSE None
           /\ error' = IF cd.ok THEN NoError ELSE cd.err
    /\ UNCHANGED <<args, training, pc, model, last_generated, g_out, g_returned,
                   g_calls, events, logger, iteration, d_call, root_len, item,
                   fnVars>>

\* the data loader reads dataset[idx]
get_item ==
    /\ dataset # None
    /\ \E idx \in 0..(ConcatLen(dataset) - 1) :
          item' = [index |-> idx, at |-> GetItem(dataset, idx)]
    /\ UNCHANGED <<runnerVars, root_len, dataset, fnVars>>

NextData == create_dataset \/ get_item

SpecData == InitData /\ [][NextData]_vars

-----------------------------------------------------------------------------
(* Properties of AugWrapper, checked under SpecAug. *)

CropDone == fn_in.op = "random_crop_and_resize" /\ fn_out # None

FlipDone == fn_in.op = "random_hflip" /\ fn_out # None

ForwardDone == fn_in.op = "forward" /\ fn_out # None

\* out is tensor t mirrored left to right
IsMirrorOf(out, t) ==
    /\ out.shape = t.shape
    /\ out.den = t.den
    /\ \A b \in 1..t.shape[1] : \A i \in 1..t.shape[2] : \A j \in 1..t.shape[3] :
          out.px[b][i][j] = t.px[b][i][t.shape[3] + 1 - j]

\* C3 (as claimed): for every side S and every scale in (0,1),
\* random_crop_and_resize returns, without raising, a batch of the input's
\* spatial size, and so does forward whether or not its gate fires.
C3_ShapePreservedForEveryScale ==
    /\ (CropDone /\ RatLess(fn_in.scale, <<1, 1>>)) =>
          /\ fn_out.res.ok
          /\ fn_out.res.value.shape = fn_in.images.shape
    /\ ForwardDone =>
          /\ fn_out.res.ok
          /\ fn_out.res.d_input.shape = fn_in.images.shape

\* C5: forward augments (flip, then crop-and-resize) exactly when the gate draw
\* is below aug_prob and otherwise hands the discriminator the input batch
\* itself; with aug_prob = 0 it never augments, with aug_prob = 1 it always does.
C5_GateDecidesAugmentation ==
    ForwardDone =>
      LET r == <<fn_in.gate, RandDen>>
          res == fn_out.res
          aug == random_crop_and_resize(
                     random_hflip(fn_in.images, <<1, 2>>, fn_in.rflip),
                     fn_in.scale, fn_in.rh, fn_in.rw)
      IN  /\ res.augmented <=> RatLess(r, fn_in.prob)
          /\ ~RatLess(r, fn_in.prob) =>
                res.ok /\ res.d_input = fn_in.images
          /\ (RatLess(r, fn_in.prob) /\ res.ok) =>
                aug.ok /\ res.d_input = aug.value
          /\ fn_in.prob[1] = 0 => res.ok /\ res.d_input = fn_in.images
          /\ fn_in.prob[1] = fn_in.prob[2] => res.augmented
          /\ res.ok => res.value = [score_of |-> res.d_input]

\* C5's case: a wrapper with aug_prob = 1 augmented a batch of side >= 2 and
\* the discriminator got a batch that differs from the input
C5_Witness ==
    /\ ForwardDone
    /\ fn_in.prob = <<ProbDen, ProbDen>>
    /\ fn_in.images.shape[3] >= 2
    /\ fn_out.res.ok
    /\ fn_out.res.augmented
    /\ fn_out.res.d_input # fn_in.images

\* C8: for every side S >= 1, scale in (0,1] and pair of draws, the crop side
\* is floor(S*s), the window lies inside the image, the top offset is the
\* floor of its own draw times the offset range and the left offset that of
\* the other draw; for s = 1 both offsets are 0, the window is the image and
\* the resized crop has the input's pixel values.
C8_CropWindowFits ==
    CropDone =>
      LET S == fn_in.images.shape[3]
          win == fn_out.win
      IN  /\ win.new_size * fn_in.scale[2] <= S * fn_in.scale[1]
          /\ S * fn_in.scale[1] < (win.new_size + 1) * fn_in.scale[2]
          /\ win.dsize = S - win.new_size
          /\ 0 <= win.h0 /\ win.h1 = win.h0 + win.new_size /\ win.h1 <= S
          /\ 0 <= win.w0 /\ win.w1 = win.w0 + win.new_size /\ win.w1 <= S
          /\ win.h0 * RandDen <= fn_in.rh * win.dsize
          /\ fn_in.rh * win.dsize < (win.h0 + 1) * RandDen
          /\ win.w0 * RandDen <= fn_in.rw * win.dsize
          /\ fn_in.rw * win.dsize < (win.w0 + 1) * RandDen
          /\ fn_in.scale[1] = fn_in.scale[2] =>
                /\ win.dsize = 0
                /\ win.h0 = 0 /\ win.w0 = 0 /\ win.h1 = S /\ win.w1 = S
                /\ fn_out.res.ok
                /\ fn_out.res.value.shape = fn_in.images.shape
                /\ \A b \in 1..fn_in.images.shape[1] : \A i, j \in 1..S :
                      fn_out.res.value.px[b][i][j] * fn_in.images.den
                         = fn_in.images.px[b][i][j] * fn_out.res.value.den

\* C8's case: a crop whose two offsets differ (the draws are independent)
C8_Witness ==
    /\ CropDone
    /\ fn_out.win.h0 > fn_out.win.w0
    /\ fn_out.win.w0 > 0
    /\ fn_out.win.h1 <= fn_in.images.shape[3]

\* C9 (as claimed): whenever the crop is not empty, every integer offset from
\* 0 up to and including S - c is produced by some draw, for the top edge and
\* for the left edge.
C9_OffsetsCoverFullRange ==
    (CropDone \/ (ForwardDone /\ fn_in.prob = <<ProbDen, ProbDen>>)) =>
      LET S == fn_in.images.shape[3]
          win == CropWindow(S, fn_in.scale, 0, 0)
      IN  win.new_size >= 1 =>
            \A o \in 0..win.dsize :
               /\ \E r \in Draws : CropWindow(S, fn_in.scale, r, 0).h0 = o
               /\ \E r \in Draws : CropWindow(S, fn_in.scale, 0, r).w0 = o

\* C10 (as claimed): random_hflip returns the tensor unflipped if and only if
\* the draw is greater than prob, and flipped otherwise.
C10_UnflippedIffDrawGreater ==
    (FlipDone /\ fn_in.prob[1] >= 0 /\ fn_in.prob[1] <= fn_in.prob[2]) =>
      IF RatLess(fn_in.prob, <<fn_in.r, RandDen>>)
      THEN fn_out.res = fn_in.tensor
      ELSE IsMirrorOf(fn_out.res, fn_in.tensor)

\* C10 (amended): random_hflip returns the tensor unflipped if and only if the
\* draw is less than prob (prob > r), and flipped otherwise.
C10_UnflippedIffDrawLess ==
    FlipDone =>
      IF RatLess(<<fn_in.r, RandDen>>, fn_in.prob)
      THEN fn_out.res = fn_in.tensor
      ELSE IsMirrorOf(fn_out.res, fn_in.tensor)

\* C10's case: a draw below prob left a tensor of side >= 2 unflipped
C10_Witness ==
    /\ FlipDone
    /\ fn_in.tensor.shape[3] >= 2
    /\ RatLess(<<0, 1>>, <<fn_in.r, RandDen>>)
    /\ RatLess(<<fn_in.r, RandDen>>, fn_in.prob)
    /\ fn_out.res = fn_in.tensor
    /\ ~IsMirrorOf(fn_out.res, fn_in.tensor)

-----------------------------------------------------------------------------
(* Properties of the dataset, checked under SpecData. *)

\* C4: the dataset create_dataset returns has length L*R, and index i and
\* index i + L (both in range) resolve to the same sample i mod L of the one
\* underlying dataset object.
C4_RepeatIsIndexView ==
    dataset # None =>
      LET L == root_len
          R == args.ds_repeat
      IN  /\ ConcatLen(dataset) = L * R
          /\ \A k \in 1..Len(dataset.datasets) : dataset.datasets[k].obj = 1
          /\ \A i \in 0..(L * R - 1) :
                /\ GetItem(dataset, i).sample_idx = i % L
                /\ GetItem(dataset, i).obj = 1
                /\ i + L < L * R =>
                      /\ GetItem(dataset, i + L).obj = GetItem(dataset, i).obj
                      /\ GetItem(dataset, i + L).sample_idx
                            = GetItem(dataset, i).sample_idx
          /\ item # None =>
                /\ item.at.sample_idx = item.index % L
                /\ item.at.obj = 1

\* C4's case: a lookup past the first repetition of a dataset of several
\* images, in a list entry other than the first
C4_Witness ==
    /\ dataset # None
    /\ root_len >= 2
    /\ args.ds_repeat >= 3
    /\ item # None
    /\ item.index >= 2 * root_len + 1
    /\ item.at.dataset_idx = 2
    /\ item.at.sample_idx = item.index - 2 * root_len

-----------------------------------------------------------------------------
(* Properties of the Runner, checked under Spec. *)

\* the step in which the training loop fires the registered plot callback
PlotFires ==
    /\ pc = "running"
    /\ error = NoError
    /\ events # << >>
    /\ iteration' = iteration + 1

\* iteration it is one the callback plots at
OnCadence(it) ==
    /\ args.plot_every.value # 0
    /\ PyMod(it, args.plot_every.value) = 0

\* a configuration the spec calls invalid
InvalidConfig ==
    \/ args.base_size <= 0
    \/ args.crop_size <= 0
    \/ args.aug_prob[1] < 0
    \/ args.aug_prob[1] > args.aug_prob[2]
    \/ (args.plot_every # Unset /\ args.plot_every.value <= 0)

\* C1 (as claimed): when the plot callback fires on an iteration with
\* iteration mod plot_every = 0 while last_generated is still None, it is
\* skipped: no error is raised and nothing reaches the logging sink (stated
\* for valid configurations).
C1_PlotSkippedBeforeFirstSample ==
    [][(PlotFires /\ ~InvalidConfig /\ last_generated = None
                  /\ OnCadence(iteration'))
          => (error' = NoError /\ logger' = logger)]_vars

\* img is the first min(GRID, B) images of tensor g, each value shifted by
\* 1/2 and clamped into [0, 1]
IsPlotOf(img, g) ==
    /\ img.shape = <<Min(GRID, g.shape[1]), g.shape[2], g.shape[3]>>
    /\ \A b \in 1..img.shape[1] : \A i \in 1..img.shape[2] :
          \A j \in 1..img.shape[3] :
             /\ 0 <= img.px[b][i][j] /\ img.px[b][i][j] <= img.den
             /\ img.px[b][i][j] * 2 * g.den
                   = img.den * Max(0, Min(2 * g.den, 2 * g.px[b][i][j] + g.den))

\* C2: in training mode, once a generator output has been captured, each
\* completed iteration with iteration mod plot_every = 0 emits exactly one
\* grid to the sink, made of the first min(16, B) images of the latest
\* captured output shifted by 1/2 and clamped into [0,1]; every other
\* iteration emits nothing.
C2_PlotEmitsOnCadence ==
    [][(PlotFires /\ training /\ last_generated # None)
          => IF OnCadence(iteration')
             THEN /\ error' = NoError
                  /\ logger'.pending = << >>
                  /\ logger'.rendered
                        = Append(logger.rendered,
                            [iteration |-> iteration',
                             items |-> <<[name |-> "generated",
                                          count |-> Min(GRID, last_generated.B)]>>])
                  /\ Len(logger'.shown) = 1
                  /\ logger'.shown[1].name = "generated"
                  /\ IsPlotOf(logger'.shown[1].images, TensorOf(last_generated))
             ELSE logger' = logger]_vars

\* C2's case: the second grid of a run, emitted at iteration 2 * plot_every
\* from a batch of more than 16 images, some of them clamped at 0 and at 1
C2_Witness ==
    /\ training
    /\ error = NoError
    /\ iteration = 2 * args.plot_every.value
    /\ args.plot_every.value >= 1
    /\ Len(logger.rendered) = 2
    /\ last_generated # None
    /\ last_generated.B > GRID
    /\ logger.shown[1].images.shape[1] = GRID
    /\ \E b \in 1..GRID : logger.shown[1].images.px[b][1][1] = 0
    /\ \E b \in 1..GRID :
          logger.shown[1].images.px[b][1][1] = logger.shown[1].images.den

\* C6: after create_model, last_generated is None until the generator is
\* called and from then on is the output of the latest generator call, which
\* is also what that call returned to its caller.
C6_HookCapturesLatestOutput ==
    model # None =>
      /\ g_calls = 0 => last_generated = None
      /\ g_calls > 0 =>
            /\ last_generated = g_out
            /\ g_returned = g_out
            /\ g_out \in GenOutputs(args.crop_size)

\* C6's case: the generator was called more than once and the latest output,
\* a batch of more than 16 images, is the captured and the returned one
C6_Witness ==
    /\ model # None
    /\ g_calls >= 2
    /\ g_out.B > GRID
    /\ last_generated = g_out
    /\ g_returned = g_out

\* C7 (as claimed): a run with an invalid configuration fails at startup: it
\* completes no training iteration and makes no discriminator call.
C7_InvalidConfigFailsAtStartup ==
    InvalidConfig => (iteration = 0 /\ d_call = None /\ g_calls = 0)

====
